---- MODULE Spec2Model ----
(***************************************************************************)
(* Model of two view components of the chat widget:                        *)
(*   - DisclaimerPanel (components/panels/DisclaimerPanel.tsx): the        *)
(*     read-to-bottom gate of the accept button and its mount probes;      *)
(*   - Header (components-legacy/header/Header.tsx): which controls the    *)
(*     header renders from the merged header config and the session flags, *)
(*     and what a click on them invokes.                                   *)
(* JavaScript values that may be undefined or null are modelled as the     *)
(* strings "undefined", "null", "true" and "false".                        *)
(***************************************************************************)
EXTENDS Integers, Sequences, FiniteSets

\* ---------------------------------------------------------------- bounds
\* longest history of scroll notifications kept for one panel
MaxEvents == 3
\* most clicks on the accept button that are counted
MaxAccepts == 2
\* longest list of custom menu options
MaxMenuLen == 2

VARIABLES
    \* DisclaimerPanel
    mounted,              \* the panel instance is mounted
    hasReadDisclaimer,    \* React state of the instance
    chatWidthBreakpoint,  \* store value read by the panel
    footer,               \* the memoized accept button as last rendered
    timers,               \* pending probe timeouts (1, 2, 3)
    cleared,              \* timeouts the effect's cleanup cancelled while pending
    probeLog,             \* probes that dispatched a scroll event, in order
    scrollLog,            \* details handed to handleBodyScroll, in order
    accepted,             \* calls of onAcceptDisclaimer made by the button
    \* Header
    derivedHeader,        \* state.config.derived.header
    headerConfigOverride, \* the headerConfigOverride prop
    homescreen,           \* state.config.public.homescreen
    isConnectingOrConnected,
    isHomeScreenActive,
    isRestarting,
    lastClick,            \* the last click on a header control and what it invoked
    lastFocus,            \* the last requestFocus call: what it focused and returned
    languagePack,         \* the language pack strings of the AI slug
    afterDescriptionHasContent \* the host wrote content into the after-description element

disclaimerVars == <<mounted, hasReadDisclaimer, chatWidthBreakpoint, footer,
                    timers, cleared, probeLog, scrollLog, accepted>>
headerVars == <<derivedHeader, headerConfigOverride, homescreen,
                isConnectingOrConnected, isHomeScreenActive, isRestarting,
                lastClick, lastFocus, languagePack, afterDescriptionHasContent>>
vars == <<mounted, hasReadDisclaimer, chatWidthBreakpoint, footer,
          timers, cleared, probeLog, scrollLog, accepted,
          derivedHeader, headerConfigOverride, homescreen,
          isConnectingOrConnected, isHomeScreenActive, isRestarting,
          lastClick, lastFocus, languagePack, afterDescriptionHasContent>>

\* ======================================================= DisclaimerPanel

ScrollDetails == [isScrollable : BOOLEAN, isAtBottom : BOOLEAN]

Breakpoints == {"WIDE", "STANDARD"}

\* delays of the three probes, in milliseconds
ProbeDelays == <<100, 300, 500>>

ProbeIds == 1..3

\* the timeout that fires next: the pending one with the smallest delay
NextTimer(ts) == CHOOSE i \in ts : \A j \in ts : ProbeDelays[i] <= ProbeDelays[j]

\* handleBodyScroll: the value of hasReadDisclaimer after the handler ran
handleBodyScroll_assign(has, detail) == (~detail.isScrollable) \/ detail.isAtBottom
handleBodyScroll_bottomOnly(has, detail) == has \/ detail.isAtBottom
handleBodyScroll(has, detail) ==
    IF (~detail.isScrollable) \/ detail.isAtBottom THEN TRUE ELSE has

\* the accept button of the footer
footerElement(has, bp) ==
    [disabled |-> ~has, size |-> IF bp = "WIDE" THEN "2xl" ELSE "lg"]

\* the useMemo dependencies that can change in the model
memoDeps_noState(has, bp) == <<bp>>
memoDeps(has, bp) == <<bp, has>>

\* useMemo: the previous element unless a dependency changed
useMemo(prev, oldDeps, newDeps, has, bp) ==
    IF oldDeps = newDeps THEN prev ELSE footerElement(has, bp)

\* the dependency list of the mount effect: []
effectDeps_hasRead(has, bp) == <<has>>
effectDeps(has, bp) == <<>>

\* the timeouts the effect's cleanup leaves pending: it clears all three
cleanup_firstOnly(ts) == ts \ {1}
cleanup(ts) == ts \ {1, 2, 3}

\* useEffect after a re-render: nothing unless a dependency changed, else
\* the cleanup and the effect again (three new timeouts)
useEffect(ts, oldDeps, newDeps) ==
    IF oldDeps = newDeps THEN ts ELSE cleanup(ts) \cup ProbeIds

\* the panel re-rendered with the new state and store value
Render(has, bp) ==
    /\ footer' = useMemo(footer, memoDeps(hasReadDisclaimer, chatWidthBreakpoint),
                         memoDeps(has, bp), has, bp)
    /\ timers' = useEffect(timers, effectDeps(hasReadDisclaimer, chatWidthBreakpoint),
                           effectDeps(has, bp))

DisclaimerMount(panelFound, bp) ==
    /\ mounted = TRUE
    /\ hasReadDisclaimer = FALSE
    /\ chatWidthBreakpoint = bp
    /\ footer = footerElement(FALSE, bp)
    /\ timers = IF panelFound THEN ProbeIds ELSE {}
    /\ cleared = {}
    /\ probeLog = <<>>
    /\ scrollLog = <<>>
    /\ accepted = 0

\* the panel's scroll listener hands a notification to onBodyScroll
BodyScroll(detail) ==
    /\ mounted
    /\ Len(scrollLog) < MaxEvents
    /\ hasReadDisclaimer' = handleBodyScroll(hasReadDisclaimer, detail)
    /\ Render(hasReadDisclaimer', chatWidthBreakpoint)
    /\ scrollLog' = Append(scrollLog, detail)
    /\ UNCHANGED <<mounted, chatWidthBreakpoint, cleared, probeLog, accepted>>

\* a pending probe timeout fires: checkInitialState
ProbeFire(panelBodyFound) ==
    /\ timers # {}
    /\ timers' = timers \ {NextTimer(timers)}
    /\ probeLog' = IF panelBodyFound THEN Append(probeLog, NextTimer(timers))
                   ELSE probeLog
    /\ UNCHANGED <<mounted, hasReadDisclaimer, chatWidthBreakpoint, footer,
                   cleared, scrollLog, accepted>>

\* the store's chatWidthBreakpoint changes and the panel re-renders
Rerender(bp) ==
    /\ mounted
    /\ bp # chatWidthBreakpoint
    /\ chatWidthBreakpoint' = bp
    /\ Render(hasReadDisclaimer, bp)
    /\ UNCHANGED <<mounted, hasReadDisclaimer, cleared, probeLog, scrollLog,
                   accepted>>

\* a click on the accept button; a disabled button takes no click
AcceptClick ==
    /\ mounted
    /\ ~footer.disabled
    /\ accepted < MaxAccepts
    /\ accepted' = accepted + 1
    /\ UNCHANGED <<mounted, hasReadDisclaimer, chatWidthBreakpoint, footer,
                   timers, cleared, probeLog, scrollLog>>

\* teardown: the effect's cleanup clears the three timeouts
Unmount ==
    /\ mounted
    /\ mounted' = FALSE
    /\ timers' = cleanup(timers)
    /\ cleared' = timers \ cleanup(timers)
    /\ UNCHANGED <<hasReadDisclaimer, chatWidthBreakpoint, footer, probeLog,
                   scrollLog, accepted>>

\* ================================================================ Header

\* ---- values of the header config
Truthy(v) == v = "true"
Nullish(v) == v \in {"undefined", "null"}

\* a custom menu option: its text and the identity of its handler
Options == { [text |-> "Help", handler |-> "helpHandler"],
             [text |-> "About", handler |-> "aboutHandler"] }

OptionLists == UNION { [1..k -> Options] : k \in 0..MaxMenuLen }

UndefinedMenu == [kind |-> "undefined", items |-> <<>>]
NullMenu == [kind |-> "null", items |-> <<>>]
AbsentMenu == [kind |-> "absent", items |-> <<>>]
ArrayMenu(s) == [kind |-> "array", items |-> s]

MenuValues == {UndefinedMenu, NullMenu} \cup { ArrayMenu(s) : s \in OptionLists }
HideValues == {"undefined", "null", "false", "true"}
IconTypeValues == {"undefined", "CLOSE", "MINIMIZE", "SIDE_PANEL_LEFT",
                   "SIDE_PANEL_RIGHT", "OTHER"}
ShowValues == {"undefined", "false", "true"}

HeaderConfigs == [menuOptions : MenuValues,
                  hideMinimizeButton : HideValues,
                  minimizeButtonIconType : IconTypeValues,
                  showRestartButton : ShowValues,
                  showAiLabel : ShowValues]

\* ---- the headerConfigOverride prop: no object, or an object in which a key
\* is absent ("absent") or carries a value (which may be undefined)
NoFields == [menuOptions |-> AbsentMenu, hideMinimizeButton |-> "absent",
             minimizeButtonIconType |-> "absent", showRestartButton |-> "absent",
             showAiLabel |-> "absent"]
NoOverride == [present |-> FALSE, fields |-> NoFields]
OverrideOf(f) == [present |-> TRUE, fields |-> f]

Overrides ==
    { NoOverride,
      OverrideOf(NoFields),
      OverrideOf([NoFields EXCEPT !.menuOptions = ArrayMenu(<<>>)]),
      OverrideOf([NoFields EXCEPT !.menuOptions = UndefinedMenu,
                                  !.hideMinimizeButton = "true"]),
      OverrideOf([NoFields EXCEPT !.minimizeButtonIconType = "CLOSE",
                                  !.showRestartButton = "undefined"]),
      OverrideOf([NoFields EXCEPT !.showRestartButton = "true",
                                  !.hideMinimizeButton = "false"]) }

\* the reduce over Object.entries: keys whose value is undefined are dropped
filteredOverrides_keepUndefined(f) == f
filteredOverrides(f) ==
    [menuOptions |-> IF f.menuOptions.kind = "undefined" THEN AbsentMenu
                     ELSE f.menuOptions,
     hideMinimizeButton |-> IF f.hideMinimizeButton = "undefined" THEN "absent"
                            ELSE f.hideMinimizeButton,
     minimizeButtonIconType |-> IF f.minimizeButtonIconType = "undefined"
                                THEN "absent" ELSE f.minimizeButtonIconType,
     showRestartButton |-> IF f.showRestartButton = "undefined" THEN "absent"
                           ELSE f.showRestartButton,
     showAiLabel |-> IF f.showAiLabel = "undefined" THEN "absent"
                     ELSE f.showAiLabel]

\* { ...derivedPublicConfig.header, ...filteredOverrides }
mergedHeaderConfig(derived, override) ==
    IF ~override.present THEN derived
    ELSE LET o == filteredOverrides(override.fields) IN
         [menuOptions |-> IF o.menuOptions.kind # "absent" THEN o.menuOptions
                          ELSE derived.menuOptions,
          hideMinimizeButton |-> IF o.hideMinimizeButton # "absent"
                                 THEN o.hideMinimizeButton
                                 ELSE derived.hideMinimizeButton,
          minimizeButtonIconType |-> IF o.minimizeButtonIconType # "absent"
                                     THEN o.minimizeButtonIconType
                                     ELSE derived.minimizeButtonIconType,
          showRestartButton |-> IF o.showRestartButton # "absent"
                                THEN o.showRestartButton
                                ELSE derived.showRestartButton,
          showAiLabel |-> IF o.showAiLabel # "absent" THEN o.showAiLabel
                          ELSE derived.showAiLabel]

\* ---- session flags
Homescreens == { [defined |-> FALSE, isOn |-> FALSE, disableReturn |-> FALSE] }
               \cup [defined : {TRUE}, isOn : BOOLEAN, disableReturn : BOOLEAN]

SessionFlags == {"isConnectingOrConnected", "isHomeScreenActive", "isRestarting"}

\* homescreen?.isOn && !homescreen?.disableReturn, as a truth value
homeScreenIsOn(hs) == hs.defined /\ hs.isOn /\ ~hs.disableReturn

allowHomeScreen(hsOn, connecting, hsActive) == hsOn /\ ~connecting /\ ~hsActive

\* onToggleHomeScreen is a required prop of the header
onToggleHomeScreenGiven == TRUE

showBackButton(allow) == allow /\ onToggleHomeScreenGiven

\* customMenuOptions || undefined: an array, also an empty one, is truthy
memoizedCustomMenuOptions(menu) ==
    IF menu.kind = "array" THEN menu ELSE UndefinedMenu

\* languagePack.homeScreen_overflowMenuHomeScreen
HomeScreenLabel == "Home screen"

Texts(items) == [i \in 1..Len(items) |-> items[i].text]

\* memoizedCustomMenuOptions?.map(text), with the home screen entry spliced
\* in at position 0 when allowHomeScreen
overflowItems_push(menu, allow) ==
    IF menu.kind # "array" THEN UndefinedMenu
    ELSE IF allow THEN ArrayMenu(Texts(menu.items) \o <<HomeScreenLabel>>)
    ELSE ArrayMenu(Texts(menu.items))
overflowItems(menu, allow) ==
    IF menu.kind # "array" THEN UndefinedMenu
    ELSE IF allow THEN ArrayMenu(<<HomeScreenLabel>> \o Texts(menu.items))
    ELSE ArrayMenu(Texts(menu.items))

\* the left control: overflow menu, back button or nothing
leftContent(items, showBack) ==
    IF items.kind = "array" THEN "overflow"
    ELSE IF showBack THEN "back"
    ELSE "none"

\* overflowClicked(index): the callbacks it invokes, index counted from 0
overflowClicked_noShift(index, menu, allow) ==
    IF index = 0 /\ allow THEN <<"onToggleHomeScreen">>
    ELSE IF menu.kind = "array" /\ index + 1 \in 1..Len(menu.items)
         THEN <<menu.items[index + 1].handler>>
         ELSE <<>>
overflowClicked(index, menu, allow) ==
    IF index = 0 /\ allow THEN <<"onToggleHomeScreen">>
    ELSE LET j == IF allow THEN index - 1 ELSE index IN
         IF menu.kind = "array" /\ j + 1 \in 1..Len(menu.items)
         THEN <<menu.items[j + 1].handler>>
         ELSE <<>>

\* headerConfig?.minimizeButtonIconType ?? MinimizeButtonIconType.MINIMIZE
minimizeButtonIconType(cfg) ==
    IF Nullish(cfg.minimizeButtonIconType) THEN "MINIMIZE"
    ELSE cfg.minimizeButtonIconType

\* the switch over minimizeButtonIconType
closeIcon_defaultClose(type) ==
    CASE type = "CLOSE" ->
           [icon |-> "CloseLarge", isReversible |-> TRUE, reverseIcon |-> FALSE]
      [] type = "MINIMIZE" ->
           [icon |-> "SubtractLarge", isReversible |-> TRUE, reverseIcon |-> FALSE]
      [] type = "SIDE_PANEL_LEFT" ->
           [icon |-> "SidePanelClose", isReversible |-> FALSE, reverseIcon |-> FALSE]
      [] type = "SIDE_PANEL_RIGHT" ->
           [icon |-> "RightPanelClose", isReversible |-> FALSE, reverseIcon |-> TRUE]
      [] OTHER ->
           [icon |-> "CloseLarge", isReversible |-> TRUE, reverseIcon |-> FALSE]
closeIcon(type) ==
    CASE type = "CLOSE" ->
           [icon |-> "CloseLarge", isReversible |-> TRUE, reverseIcon |-> FALSE]
      [] type = "MINIMIZE" ->
           [icon |-> "SubtractLarge", isReversible |-> TRUE, reverseIcon |-> FALSE]
      [] type = "SIDE_PANEL_LEFT" ->
           [icon |-> "SidePanelClose", isReversible |-> FALSE, reverseIcon |-> FALSE]
      [] type = "SIDE_PANEL_RIGHT" ->
           [icon |-> "RightPanelClose", isReversible |-> FALSE, reverseIcon |-> TRUE]
      [] OTHER ->
           [icon |-> "SubtractLarge", isReversible |-> TRUE, reverseIcon |-> FALSE]

\* headerConfig?.hideMinimizeButton ?? false, as a truth value
hideCloseButton_notFalse(cfg) == cfg.hideMinimizeButton # "false"
hideCloseButton(cfg) ==
    IF Nullish(cfg.hideMinimizeButton) THEN FALSE
    ELSE Truthy(cfg.hideMinimizeButton)

\* the restart button: whether it renders and whether it is disabled
restartButton_enabledWhileRestarting(cfg, restarting) ==
    [rendered |-> Truthy(cfg.showRestartButton), disabled |-> FALSE]
restartButton(cfg, restarting) ==
    [rendered |-> Truthy(cfg.showRestartButton), disabled |-> restarting]

\* ---- one render of the header over the current props and store
headerConfig == mergedHeaderConfig(derivedHeader, headerConfigOverride)
customMenu == memoizedCustomMenuOptions(headerConfig.menuOptions)
allowHome == allowHomeScreen(homeScreenIsOn(homescreen), isConnectingOrConnected,
                             isHomeScreenActive)
renderedOverflowItems == overflowItems(customMenu, allowHome)
renderedLeft == leftContent(renderedOverflowItems, showBackButton(allowHome))
renderedCloseIcon == closeIcon(minimizeButtonIconType(headerConfig))
closeButtonRendered == ~hideCloseButton(headerConfig)
renderedRestart == restartButton(headerConfig, isRestarting)

NoClick == [control |-> "none", index |-> -1, invoked |-> <<>>]

\* ---- the AI slug
\* the strings of the language pack the slug shows; "" is an empty string
LanguagePacks == [ai_slug_label : {"", "AI"},
                  ai_slug_title : {"", "Powered by AI"},
                  ai_slug_description : {"", "Generated answers"}]

EmptyLanguagePack ==
    [ai_slug_label |-> "", ai_slug_title |-> "", ai_slug_description |-> ""]

\* showAiLabel !== undefined ? showAiLabel : true
shouldShowAiLabel(cfg) ==
    IF cfg.showAiLabel # "undefined" THEN Truthy(cfg.showAiLabel) ELSE TRUE

\* shouldShowAiLabel && !!(label || title || description || element): the last
\* operand is the WriteableElement React element, an object and so truthy
\* whether or not the host wrote content into its slot
showAiSlugContent(cfg, lp) ==
    /\ shouldShowAiLabel(cfg)
    /\ \/ lp.ai_slug_label # ""
       \/ lp.ai_slug_title # ""
       \/ lp.ai_slug_description # ""
       \/ TRUE

aiSlugRendered == showAiSlugContent(headerConfig, languagePack)

\* ---- requestFocus
NoFocus == [called |-> FALSE, focused |-> <<>>, result |-> FALSE]

\* a ref holds an element exactly while its button is rendered
closeButtonRef == closeButtonRendered
backButtonRef == renderedLeft = "back"
restartButtonRef == renderedRestart.rendered

\* requestFocus: the refs handed to doFocusRef and the value returned
requestFocus_whileRestarting(closeRef, backRef, restartRef, restarting) ==
    IF closeRef THEN [called |-> TRUE, focused |-> <<"close">>, result |-> TRUE]
    ELSE IF backRef THEN [called |-> TRUE, focused |-> <<"back">>, result |-> TRUE]
    ELSE IF restartRef
         THEN [called |-> TRUE, focused |-> <<"restart">>, result |-> TRUE]
    ELSE [called |-> TRUE, focused |-> <<>>, result |-> FALSE]
requestFocus(closeRef, backRef, restartRef, restarting) ==
    IF closeRef THEN [called |-> TRUE, focused |-> <<"close">>, result |-> TRUE]
    ELSE IF backRef THEN [called |-> TRUE, focused |-> <<"back">>, result |-> TRUE]
    ELSE IF restartRef /\ ~restarting
         THEN [called |-> TRUE, focused |-> <<"restart">>, result |-> TRUE]
    ELSE [called |-> TRUE, focused |-> <<>>, result |-> FALSE]

HeaderMount(d, o, hs, conn, act, rst, lp, content) ==
    /\ languagePack = lp
    /\ afterDescriptionHasContent = content
    /\ lastFocus = NoFocus
    /\ derivedHeader = d
    /\ headerConfigOverride = o
    /\ homescreen = hs
    /\ isConnectingOrConnected = conn
    /\ isHomeScreenActive = act
    /\ isRestarting = rst
    /\ lastClick = NoClick

\* a click on the overflow item at index (counted from 0)
OverflowItemClick(index) ==
    /\ renderedLeft = "overflow"
    /\ index \in 0..(Len(renderedOverflowItems.items) - 1)
    /\ lastClick' = [control |-> "overflow", index |-> index,
                     invoked |-> overflowClicked(index, customMenu, allowHome)]
    /\ lastFocus' = NoFocus
    /\ UNCHANGED <<derivedHeader, headerConfigOverride, homescreen,
                   isConnectingOrConnected, isHomeScreenActive, isRestarting,
                   languagePack, afterDescriptionHasContent>>

\* a click on the standalone back button
BackButtonClick ==
    /\ renderedLeft = "back"
    /\ lastClick' = [control |-> "back", index |-> -1,
                     invoked |-> <<"onToggleHomeScreen">>]
    /\ lastFocus' = NoFocus
    /\ UNCHANGED <<derivedHeader, headerConfigOverride, homescreen,
                   isConnectingOrConnected, isHomeScreenActive, isRestarting,
                   languagePack, afterDescriptionHasContent>>

\* a click on the restart button; a disabled button takes no click
RestartButtonClick ==
    /\ renderedRestart.rendered
    /\ ~renderedRestart.disabled
    /\ lastClick' = [control |-> "restart", index |-> -1,
                     invoked |-> <<"onRestart">>]
    /\ lastFocus' = NoFocus
    /\ UNCHANGED <<derivedHeader, headerConfigOverride, homescreen,
                   isConnectingOrConnected, isHomeScreenActive, isRestarting,
                   languagePack, afterDescriptionHasContent>>

\* a click on the close/minimize button
CloseButtonClick ==
    /\ closeButtonRendered
    /\ lastClick' = [control |-> "close", index |-> -1,
                     invoked |-> <<"onClose">>]
    /\ lastFocus' = NoFocus
    /\ UNCHANGED <<derivedHeader, headerConfigOverride, homescreen,
                   isConnectingOrConnected, isHomeScreenActive, isRestarting,
                   languagePack, afterDescriptionHasContent>>

\* the parent calls requestFocus through the header's ref
RequestFocus ==
    /\ lastFocus' = requestFocus(closeButtonRef, backButtonRef, restartButtonRef,
                                 isRestarting)
    /\ lastClick' = NoClick
    /\ UNCHANGED <<derivedHeader, headerConfigOverride, homescreen,
                   isConnectingOrConnected, isHomeScreenActive, isRestarting,
                   languagePack, afterDescriptionHasContent>>

\* the language pack changes one of the slug's strings and the header re-renders
LanguagePackChange(lp) ==
    /\ lp # languagePack
    /\ languagePack' = lp
    /\ lastClick' = NoClick
    /\ lastFocus' = NoFocus
    /\ UNCHANGED <<derivedHeader, headerConfigOverride, homescreen,
                   isConnectingOrConnected, isHomeScreenActive, isRestarting,
                   afterDescriptionHasContent>>

\* the host fills or empties the after-description writeable element; the
\* header reads nothing of it
CustomContentChange ==
    /\ afterDescriptionHasContent' = ~afterDescriptionHasContent
    /\ UNCHANGED <<derivedHeader, headerConfigOverride, homescreen,
                   isConnectingOrConnected, isHomeScreenActive, isRestarting,
                   languagePack, lastClick, lastFocus>>

\* the parent replaces one key of the headerConfigOverride object
OverrideFieldChange(key, value) ==
    /\ headerConfigOverride' =
           OverrideOf([headerConfigOverride.fields EXCEPT ![key] = value])
    /\ headerConfigOverride' # headerConfigOverride
    /\ lastClick' = NoClick
    /\ lastFocus' = NoFocus
    /\ UNCHANGED <<derivedHeader, homescreen, isConnectingOrConnected,
                   isHomeScreenActive, isRestarting, languagePack,
                   afterDescriptionHasContent>>

\* the store's derived header config changes and the header re-renders
DerivedChange(d) ==
    /\ d # derivedHeader
    /\ derivedHeader' = d
    /\ lastClick' = NoClick
    /\ lastFocus' = NoFocus
    /\ UNCHANGED <<headerConfigOverride, homescreen, isConnectingOrConnected,
                   isHomeScreenActive, isRestarting, languagePack,
                   afterDescriptionHasContent>>

\* the store or the props change one session flag and the header re-renders
SessionChange(flag) ==
    /\ isConnectingOrConnected' = (isConnectingOrConnected # (flag = "isConnectingOrConnected"))
    /\ isHomeScreenActive' = (isHomeScreenActive # (flag = "isHomeScreenActive"))
    /\ isRestarting' = (isRestarting # (flag = "isRestarting"))
    /\ lastClick' = NoClick
    /\ lastFocus' = NoFocus
    /\ UNCHANGED <<derivedHeader, headerConfigOverride, homescreen,
                   languagePack, afterDescriptionHasContent>>

\* the parent passes another headerConfigOverride and the header re-renders
OverrideChange(o) ==
    /\ o # headerConfigOverride
    /\ headerConfigOverride' = o
    /\ lastClick' = NoClick
    /\ lastFocus' = NoFocus
    /\ UNCHANGED <<derivedHeader, homescreen, isConnectingOrConnected,
                   isHomeScreenActive, isRestarting, languagePack,
                   afterDescriptionHasContent>>

\* ======================================================== specifications

\* the header as rendered with the default config while the panel is studied
UnsetHeaderConfig ==
    [menuOptions |-> UndefinedMenu, hideMinimizeButton |-> "undefined",
     minimizeButtonIconType |-> "undefined", showRestartButton |-> "undefined",
     showAiLabel |-> "undefined"]

NoHomescreen == [defined |-> FALSE, isOn |-> FALSE, disableReturn |-> FALSE]

IdleHeader ==
    HeaderMount(UnsetHeaderConfig, NoOverride, NoHomescreen, FALSE, FALSE, FALSE,
                EmptyLanguagePack, FALSE)

\* the disclaimer panel freshly mounted while the header is studied
IdleDisclaimer == DisclaimerMount(FALSE, "STANDARD")

InitDisclaimer ==
    /\ \E panelFound \in BOOLEAN, bp \in Breakpoints : DisclaimerMount(panelFound, bp)
    /\ IdleHeader

NextDisclaimer ==
    \/ (\E detail \in ScrollDetails : BodyScroll(detail)) /\ UNCHANGED headerVars
    \/ (\E found \in BOOLEAN : ProbeFire(found)) /\ UNCHANGED headerVars
    \/ (\E bp \in Breakpoints : Rerender(bp)) /\ UNCHANGED headerVars
    \/ AcceptClick /\ UNCHANGED headerVars
    \/ Unmount /\ UNCHANGED headerVars

SpecDisclaimer == InitDisclaimer /\ [][NextDisclaimer]_vars

InitHeader ==
    /\ \E d \in HeaderConfigs, o \in Overrides, hs \in Homescreens,
          conn \in BOOLEAN, act \in BOOLEAN, rst \in BOOLEAN :
          /\ d.showAiLabel = "undefined"
          /\ HeaderMount(d, o, hs, conn, act, rst, EmptyLanguagePack, FALSE)
    /\ IdleDisclaimer

NextHeader ==
    \/ (\E index \in 0..MaxMenuLen : OverflowItemClick(index))
          /\ UNCHANGED disclaimerVars
    \/ BackButtonClick /\ UNCHANGED disclaimerVars
    \/ RestartButtonClick /\ UNCHANGED disclaimerVars
    \/ CloseButtonClick /\ UNCHANGED disclaimerVars
    \/ (\E flag \in SessionFlags : SessionChange(flag)) /\ UNCHANGED disclaimerVars
    \/ (\E o \in Overrides : OverrideChange(o)) /\ UNCHANGED disclaimerVars

SpecHeader == InitHeader /\ [][NextHeader]_vars

\* ---- requestFocus over the controls that can be rendered; the icon of the
\* close control and the AI slug take no part in it
InitFocus ==
    /\ \E d \in HeaderConfigs, hs \in Homescreens,
          conn \in BOOLEAN, act \in BOOLEAN, rst \in BOOLEAN :
          /\ d.showAiLabel = "undefined"
          /\ d.minimizeButtonIconType = "undefined"
          /\ HeaderMount(d, NoOverride, hs, conn, act, rst, EmptyLanguagePack, FALSE)
    /\ IdleDisclaimer

NextFocus ==
    \/ RequestFocus /\ UNCHANGED disclaimerVars
    \/ (\E flag \in SessionFlags : SessionChange(flag)) /\ UNCHANGED disclaimerVars
    \/ (\E o \in Overrides : OverrideChange(o)) /\ UNCHANGED disclaimerVars

SpecFocus == InitFocus /\ [][NextFocus]_vars

\* ---- the AI slug over showAiLabel, the language pack and the custom content
SlugOverrides ==
    { NoOverride, OverrideOf(NoFields) }
    \cup { OverrideOf([NoFields EXCEPT !.showAiLabel = v]) : v \in ShowValues }

InitSlug ==
    /\ \E d \in HeaderConfigs :
          /\ d = [UnsetHeaderConfig EXCEPT !.showAiLabel = d.showAiLabel]
          /\ HeaderMount(d, NoOverride, NoHomescreen, FALSE, FALSE, FALSE,
                         EmptyLanguagePack, FALSE)
    /\ IdleDisclaimer

NextSlug ==
    \/ (\E lp \in LanguagePacks : LanguagePackChange(lp)) /\ UNCHANGED disclaimerVars
    \/ CustomContentChange /\ UNCHANGED disclaimerVars
    \/ (\E o \in SlugOverrides : OverrideChange(o)) /\ UNCHANGED disclaimerVars

SpecSlug == InitSlug /\ [][NextSlug]_vars

\* ---- the config merge over every shape of the override object
StringKeys == {"hideMinimizeButton", "minimizeButtonIconType",
               "showRestartButton", "showAiLabel"}

\* the values an override object can carry under a key, "absent" for no key
OverrideValues(key) ==
    IF key = "menuOptions" THEN MenuValues \cup {AbsentMenu}
    ELSE IF key = "hideMinimizeButton" THEN HideValues \cup {"absent"}
    ELSE IF key = "minimizeButtonIconType"
         THEN {"absent", "undefined", "CLOSE", "OTHER"}
    ELSE ShowValues \cup {"absent"}

\* derived header configs the merge starts from
MergeDefaults ==
    { UnsetHeaderConfig,
      [menuOptions |-> ArrayMenu(<<>>), hideMinimizeButton |-> "true",
       minimizeButtonIconType |-> "SIDE_PANEL_LEFT", showRestartButton |-> "true",
       showAiLabel |-> "false"],
      [menuOptions |-> NullMenu, hideMinimizeButton |-> "false",
       minimizeButtonIconType |-> "MINIMIZE", showRestartButton |-> "false",
       showAiLabel |-> "true"] }

InitMerge ==
    /\ \E d \in MergeDefaults, o \in {NoOverride, OverrideOf(NoFields)} :
          HeaderMount(d, o, NoHomescreen, FALSE, FALSE, FALSE, EmptyLanguagePack,
                      FALSE)
    /\ IdleDisclaimer

NextMerge ==
    \/ (\E key \in StringKeys \cup {"menuOptions"} :
           \E value \in OverrideValues(key) : OverrideFieldChange(key, value))
          /\ UNCHANGED disclaimerVars
    \/ OverrideChange(NoOverride) /\ UNCHANGED disclaimerVars
    \/ (\E d \in MergeDefaults : DerivedChange(d)) /\ UNCHANGED disclaimerVars

SpecMerge == InitMerge /\ [][NextMerge]_vars

\* ================================================================ claims

\* a notification that reports the content as read
IsRead(detail) == (~detail.isScrollable) \/ detail.isAtBottom

SomeReadEvent == \E i \in 1..Len(scrollLog) : IsRead(scrollLog[i])

\* C1: once hasReadDisclaimer is true it stays true in every later state of
\* the instance, whatever scroll notification, probe or re-render follows.
C1_Monotonic == [][hasReadDisclaimer => hasReadDisclaimer']_vars

\* hasReadDisclaimer is true after a later {isScrollable: true, isAtBottom: false}
C1_Witness ==
    /\ hasReadDisclaimer
    /\ Len(scrollLog) >= 2
    /\ IsRead(scrollLog[1])
    /\ scrollLog[Len(scrollLog)] = [isScrollable |-> TRUE, isAtBottom |-> FALSE]

\* C2: hasReadDisclaimer is false at mount and, after any sequence of scroll
\* notifications, true exactly when one of them had !isScrollable or isAtBottom.
C2_ReadIffSomeEvent == hasReadDisclaimer <=> SomeReadEvent

\* an unread notification followed by a not-scrollable one that is not at the bottom
C2_Witness ==
    /\ Len(scrollLog) >= 2
    /\ scrollLog[1] = [isScrollable |-> TRUE, isAtBottom |-> FALSE]
    /\ scrollLog[2] = [isScrollable |-> FALSE, isAtBottom |-> FALSE]
    /\ hasReadDisclaimer

\* C3: the accept button is disabled exactly when hasReadDisclaimer is false,
\* so the button calls onAcceptDisclaimer only after a notification reported
\* the content as not scrollable or at the bottom.
C3_AcceptGated ==
    /\ footer.disabled = ~hasReadDisclaimer
    /\ (accepted > 0 => SomeReadEvent)

\* the button was enabled by a notification and clicked
C3_Witness == accepted > 0 /\ ~footer.disabled /\ Len(scrollLog) >= 2

\* the merged menuOptions holds no option: unset, null or an empty array
MenuIsEmpty ==
    \/ headerConfig.menuOptions.kind \in {"undefined", "null"}
    \/ headerConfig.menuOptions.kind = "array" /\ Len(headerConfig.menuOptions.items) = 0

MenuIsNonEmpty ==
    headerConfig.menuOptions.kind = "array" /\ Len(headerConfig.menuOptions.items) > 0

\* C4: with no menu option and allowHomeScreen false the header renders no
\* left control.
C4_NoLeftControl == (MenuIsEmpty /\ ~allowHome) => renderedLeft = "none"

\* C5: with no menu option and allowHomeScreen true the left control is the
\* standalone back button, which invokes onToggleHomeScreen, and no overflow menu.
C5_BackButton ==
    /\ (MenuIsEmpty /\ allowHome) => renderedLeft = "back"
    /\ lastClick.control = "back" => lastClick.invoked = <<"onToggleHomeScreen">>

\* C6: with a non-empty menu the left control is the overflow menu; it has
\* length + (allowHomeScreen ? 1 : 0) items: the home screen entry first when
\* allowHomeScreen, then the option texts in their configured order.
C6_OverflowItems ==
    MenuIsNonEmpty =>
        LET opts == headerConfig.menuOptions.items
            shown == renderedOverflowItems.items
            shift == IF allowHome THEN 1 ELSE 0
        IN /\ renderedLeft = "overflow"
           /\ Len(shown) = Len(opts) + shift
           /\ allowHome => shown[1] = HomeScreenLabel
           /\ \A i \in 1..Len(opts) : shown[i + shift] = opts[i].text

\* two different options behind the home screen entry
C6_Witness ==
    /\ MenuIsNonEmpty
    /\ allowHome
    /\ Len(headerConfig.menuOptions.items) = 2
    /\ headerConfig.menuOptions.items[1] # headerConfig.menuOptions.items[2]
    /\ renderedLeft = "overflow"

\* C7: a click on overflow item i invokes exactly one action: with
\* allowHomeScreen, onToggleHomeScreen for i = 0 and the handler of option
\* i - 1 otherwise; without it the handler of option i. The action belongs to
\* the text shown at index i.
C7_OverflowClick ==
    lastClick.control = "overflow" =>
        LET i == lastClick.index
            opts == headerConfig.menuOptions.items
            shown == renderedOverflowItems.items[i + 1]
        IN /\ Len(lastClick.invoked) = 1
           /\ (allowHome /\ i = 0) => lastClick.invoked[1] = "onToggleHomeScreen"
           /\ (allowHome /\ i > 0) => lastClick.invoked[1] = opts[i].handler
           /\ (~allowHome) => lastClick.invoked[1] = opts[i + 1].handler
           /\ \/ lastClick.invoked[1] = "onToggleHomeScreen" /\ shown = HomeScreenLabel
              \/ \E o \in Options : o.handler = lastClick.invoked[1] /\ o.text = shown

\* the second of two different options was clicked behind the home screen entry
C7_Witness ==
    /\ lastClick.control = "overflow"
    /\ allowHome
    /\ lastClick.index = 2
    /\ headerConfig.menuOptions.items[1] # headerConfig.menuOptions.items[2]

\* C8: the close/minimize control renders exactly when the merged
\* hideMinimizeButton is unset, null or false, whatever the other fields are.
C8_CloseRendered ==
    closeButtonRendered <=> headerConfig.hideMinimizeButton \in {"undefined", "null", "false"}

\* hideMinimizeButton = true hides the control next to a restart button and a menu
C8_Witness ==
    /\ headerConfig.hideMinimizeButton = "true"
    /\ ~closeButtonRendered
    /\ headerConfig.minimizeButtonIconType = "SIDE_PANEL_RIGHT"
    /\ renderedRestart.rendered
    /\ renderedLeft = "overflow"

\* C9: the icon is a total function of minimizeButtonIconType: CLOSE the close
\* icon, mirrored, not flipped; MINIMIZE the subtract icon, mirrored, not
\* flipped; SIDE_PANEL_LEFT a side panel icon, neither; SIDE_PANEL_RIGHT a side
\* panel icon, not mirrored, flipped; any other or unset value as MINIMIZE.
C9_IconSelection ==
    LET t == headerConfig.minimizeButtonIconType
        r == renderedCloseIcon
        minimize == [icon |-> "SubtractLarge", isReversible |-> TRUE, reverseIcon |-> FALSE]
    IN /\ t = "CLOSE" => r = [icon |-> "CloseLarge", isReversible |-> TRUE, reverseIcon |-> FALSE]
       /\ t = "MINIMIZE" => r = minimize
       /\ t = "SIDE_PANEL_LEFT" =>
             r = [icon |-> "SidePanelClose", isReversible |-> FALSE, reverseIcon |-> FALSE]
       /\ t = "SIDE_PANEL_RIGHT" =>
             r = [icon |-> "RightPanelClose", isReversible |-> FALSE, reverseIcon |-> TRUE]
       /\ t \notin {"CLOSE", "MINIMIZE", "SIDE_PANEL_LEFT", "SIDE_PANEL_RIGHT"} => r = minimize

\* a value outside the enum on a rendered close control
C9_Witness ==
    /\ headerConfig.minimizeButtonIconType = "OTHER"
    /\ closeButtonRendered
    /\ renderedCloseIcon.icon = "SubtractLarge"

\* C10: the restart control renders exactly when the merged showRestartButton
\* is true, whatever the other right-side controls do, and is then disabled
\* exactly when isRestarting.
C10_RestartControl ==
    /\ renderedRestart.rendered <=> headerConfig.showRestartButton = "true"
    /\ renderedRestart.rendered => (renderedRestart.disabled <=> isRestarting)
    /\ lastClick.control = "restart" => ~isRestarting

\* the restart control renders disabled while the close control is hidden
C10_Witness ==
    /\ renderedRestart.rendered
    /\ renderedRestart.disabled
    /\ isRestarting
    /\ ~closeButtonRendered

\* C14: teardown cancels every probe that is still pending: once the panel
\* is unmounted no probe dispatches a scroll event, whichever probes had fired.
C14_NoProbeAfterUnmount == [][(~mounted) => probeLog' = probeLog]_vars

\* unmounted after the first probe dispatched, with the other two cancelled
C14_Witness == ~mounted /\ probeLog = <<1>> /\ cleared = {2, 3}

\* the probes dispatched so far are distinct and in the order of their delays
ProbesInOrder ==
    \A i \in 1..Len(probeLog) : \A j \in 1..Len(probeLog) :
        i < j => ProbeDelays[probeLog[i]] < ProbeDelays[probeLog[j]]

\* C15: one mounted panel dispatches at most three probes, each at most once
\* and in the order 100 ms, 300 ms, 500 ms; no re-render and no change of
\* hasReadDisclaimer schedules a probe again.
C15_ProbesOnce ==
    /\ [](Len(probeLog) <= 3 /\ ProbesInOrder)
    /\ [][timers' \subseteq timers]_vars

\* all three probes dispatched around a change of hasReadDisclaimer and a re-render
C15_Witness ==
    /\ probeLog = <<1, 2, 3>>
    /\ hasReadDisclaimer
    /\ chatWidthBreakpoint = "WIDE"
    /\ footer.size = "2xl"

\* showAiLabel as the claim reads it: on when true or unset
ShowAiLabelOn == headerConfig.showAiLabel \in {"undefined", "true"}

\* C11: the AI slug renders exactly when showAiLabel is on (unset counts as
\* true) and the label, the title, the description or the after-description
\* custom content is non-empty.
C11_AiSlug ==
    aiSlugRendered <=>
        /\ ShowAiLabelOn
        /\ \/ languagePack.ai_slug_label # ""
           \/ languagePack.ai_slug_title # ""
           \/ languagePack.ai_slug_description # ""
           \/ afterDescriptionHasContent

\* C12: requestFocus focuses at most one control, the close button before the
\* back button before the restart button (that one only while no restart is in
\* progress), and returns true exactly when it focused one.
C12_RequestFocus ==
    lastFocus.called =>
        LET restartFocusable == renderedRestart.rendered /\ ~isRestarting
            back == renderedLeft = "back"
        IN /\ Len(lastFocus.focused) <= 1
           /\ lastFocus.result <=> Len(lastFocus.focused) = 1
           /\ closeButtonRendered => lastFocus.focused = <<"close">>
           /\ (~closeButtonRendered /\ back) => lastFocus.focused = <<"back">>
           /\ (~closeButtonRendered /\ ~back /\ restartFocusable)
                 => lastFocus.focused = <<"restart">>
           /\ (~lastFocus.result) <=>
                 (~closeButtonRendered /\ ~back /\ ~restartFocusable)

\* only a restart button is rendered and a restart is in progress: false
C12_Witness ==
    /\ lastFocus.called
    /\ ~closeButtonRendered
    /\ renderedLeft = "overflow"
    /\ renderedRestart.rendered
    /\ isRestarting
    /\ ~lastFocus.result

\* the value the claim gives a key of the merged config
MergedValue(key) ==
    IF /\ headerConfigOverride.present
       /\ headerConfigOverride.fields[key] \notin {"absent", "undefined"}
    THEN headerConfigOverride.fields[key]
    ELSE derivedHeader[key]

\* C13: the merged config is the derived default in which exactly the override
\* keys that carry a value other than undefined replace the default; with no
\* override object it is the derived default.
C13_ShallowMerge ==
    /\ (~headerConfigOverride.present) => headerConfig = derivedHeader
    /\ \A key \in StringKeys : headerConfig[key] = MergedValue(key)
    /\ headerConfig.menuOptions =
          IF /\ headerConfigOverride.present
             /\ headerConfigOverride.fields.menuOptions.kind \notin {"absent", "undefined"}
          THEN headerConfigOverride.fields.menuOptions
          ELSE derivedHeader.menuOptions

\* an override with a null, an undefined and an absent key over set defaults
C13_Witness ==
    /\ headerConfigOverride.present
    /\ headerConfigOverride.fields.hideMinimizeButton = "null"
    /\ derivedHeader.hideMinimizeButton = "true"
    /\ headerConfigOverride.fields.showRestartButton = "undefined"
    /\ derivedHeader.showRestartButton = "true"
    /\ headerConfigOverride.fields.menuOptions.kind = "undefined"
    /\ headerConfigOverride.fields.minimizeButtonIconType = "absent"
    /\ headerConfigOverride.fields.showAiLabel = "true"
    /\ headerConfig.hideMinimizeButton = "null"

====
